---- MODULE Spec2Model ----
(***************************************************************************)
(* A model of the WebThings gateway command line interface:                *)
(*   cli/gateway.py       GatewayConfig (the session) and Gateway (the     *)
(*                        HTTP client with its login flow)                 *)
(*   cli/command_line.py  CommandLineOutput (the output sink), the nested  *)
(*                        shells and the auto_cmdloop driver               *)
(*   cli/main.py          main                                             *)
(*                                                                         *)
(* The program blocks at four places: reading a command line, waiting for  *)
(* an HTTP response, and the two prompts of the login flow.  One action    *)
(* of the model runs the program from one such place to the next.          *)
(***************************************************************************)
EXTENDS Integers, Sequences, FiniteSets, TLC

\* ------------------------------------------------------------------ bounds
\* Lines the input holds during one run of the program.
MaxLines == 2
\* 401 answers and rejected logins of the gateway during one run of the program.
MaxUnauthorized == 1
MaxRejected == 0
\* The same for a run of the client on its own (ClientSpec), and the get/put
\* calls of such a run.
ClientUnauthorized == 2
ClientRejected == 1
MaxCalls == 2
\* Operations of a run of the session on its own (SessionSpec).
MaxOps == 4
\* Calls of a run of the output sink on its own (SinkSpec).
MaxSinkOps == 3

VARIABLES
    \* GatewayConfig
    config,         \* self.config: "gateways" -> name -> scope
    root,           \* self.root, as the path <<key, value>> into config; <<>>: not set
    dirty,          \* self.dirty
    store,          \* the file ~/.moziot-cli.json: [exists, doc]
    io,             \* file operations of the last step
    \* observations of a run of the session on its own
    session_op,     \* the last operation: [op, key, ret, exc]
    unsaved,        \* a set was called since the last save
    n_ops,
    \* the process
    pc,             \* where the program waits
    use_rawinput,   \* Cmd.use_rawinput
    cmd_stack,      \* CommandLineBase.cmd_stack, outermost first
    quitting,       \* CommandLineBase.quitting
    error_count,    \* CommandLineOutput.error_count
    fatal_count,    \* CommandLineOutput.fatal_count
    headers,        \* Gateway.headers['Authorization']: <<>> or <<"Bearer ", jwt>>
    call,           \* the get/put call in progress, or the last one of this dispatch
    lines_left,     \* lines the input still holds
    gateway_left,   \* [unauthorized, rejected]: 401 answers and rejected logins still to come
    \* observations of the last dispatch
    dispatched,     \* the line, the shell that got it, and the state it started from
    returned,       \* return values of the auto_cmdloop calls that ended in the last step
    reports,        \* error()/fatal() calls of the last step
    \* a run of the output sink on its own
    sink,           \* the CommandLineOutput: its fields, the logger and the terminal
    sink_op         \* the last call: [op, msg, before]

vars == <<config, root, dirty, store, io, session_op, unsaved, n_ops,
          pc, use_rawinput, cmd_stack, quitting, error_count, fatal_count,
          headers, call, lines_left, gateway_left, dispatched, returned, reports,
          sink, sink_op>>

sink_vars == <<sink, sink_op>>
session_vars == <<config, root, dirty, store, io>>
session_obs == <<session_op, unsaved, n_ops>>
shell_vars == <<pc, use_rawinput, cmd_stack, quitting, error_count, fatal_count,
                headers, call, lines_left, gateway_left, dispatched, returned, reports>>

\* ------------------------------------------------------------ Python values
None == "None"
True == "True"
Truthy(v) == v = True

EmptyDict == [k \in {} |-> ""]
Put(d, k, v) == [x \in (DOMAIN d) \cup {k} |-> IF x = k THEN v ELSE d[x]]

\* ------------------------------------------------------------- GatewayConfig
GatewayNames == {"g1", "g2"}
JWTs == {"j1", "j2"}
\* The credential /login hands out.
IssuedJWTs == {"j2"}
NoRoot == <<>>

\* The documents the constructor can load: no file (or an unparsable one), or
\* a gateway with a credential.
NoGateways == [gateways |-> EmptyDict]
InitialStores ==
    { [exists |-> FALSE, doc |-> NoGateways],
      [exists |-> TRUE, doc |-> [gateways |-> [g \in {"g1"} |-> [k \in {"jwt"} |-> "j1"]]]] }

\* A session: the fields of a GatewayConfig and the file behind it.
Session(c, r, d, st) == [config |-> c, root |-> r, dirty |-> d, store |-> st]

\* The outcome of a method: the session after it, what it returned or raised,
\* and the file operations it made.
Outcome(s, ret, exc, ops) == [s |-> s, ret |-> ret, exc |-> exc, io |-> ops]

GatewayConfig_init(st) == Session(st.doc, NoRoot, FALSE, st)

Scope(s) == s.config[s.root[1]][s.root[2]]

GatewayConfig_get(s, key) ==
    IF s.root = NoRoot
    THEN Outcome(s, None, "AttributeError", <<>>)
    ELSE IF key \in DOMAIN Scope(s)
         THEN Outcome(s, Scope(s)[key], "none", <<>>)
         ELSE Outcome(s, "", "none", <<>>)

\* save that forgets to clear the flag.
Mutant_save_leaves_dirty(s) ==
    IF s.dirty
    THEN Outcome([s EXCEPT !.store = [exists |-> TRUE, doc |-> s.config]],
                 None, "none", <<"write_tmp", "rename">>)
    ELSE Outcome(s, None, "none", <<>>)

GatewayConfig_save(s) ==
    IF s.dirty
    THEN Outcome([s EXCEPT !.store = [exists |-> TRUE, doc |-> s.config],
                           !.dirty = FALSE],
                 None, "none", <<"write_tmp", "rename">>)
    ELSE Outcome(s, None, "none", <<>>)

GatewayConfig_set_root(s, key, value) ==
    IF key \notin DOMAIN s.config
    THEN Outcome(s, None, "KeyError", <<>>)
    ELSE LET c == IF value \notin DOMAIN s.config[key]
                  THEN [s.config EXCEPT ![key] = Put(@, value, EmptyDict)]
                  ELSE s.config
         IN Outcome([s EXCEPT !.config = c, !.root = <<key, value>>],
                    None, "none", <<>>)

GatewayConfig_set(s, key, value) ==
    LET s1 == [s EXCEPT !.dirty = TRUE]
    IN IF s1.root = NoRoot
       THEN Outcome(s1, None, "AttributeError", <<>>)
       ELSE Outcome([s1 EXCEPT !.config[s1.root[1]][s1.root[2]] = Put(@, key, value)],
                    None, "none", <<>>)

TheSession == Session(config, root, dirty, store)

SetupSession(s) ==
    /\ config = s.config
    /\ root = s.root
    /\ dirty = s.dirty
    /\ store = s.store

\* What a run of the session on its own notes of each operation: the
\* operation, its key, what it returned or raised, and the session before it.
NoOp == [op |-> "init", key |-> "", ret |-> None, exc |-> "none",
         before |-> GatewayConfig_init([exists |-> FALSE, doc |-> NoGateways])]

SetSession(s) ==
    /\ config' = s.config
    /\ root' = s.root
    /\ dirty' = s.dirty
    /\ store' = s.store

\* ------------------------------------------------------- CommandLineOutput
\* A formatted message: the format string and its arguments.
Msg(fmt, args) == [fmt |-> fmt, args |-> args]

\* The machine: every field of the program an operation reads or writes,
\* threaded through the operators below.  ret and exc are the return value
\* and the exception of the method that ran last.
TheMachine ==
    [ s |-> TheSession, pc |-> pc, use_rawinput |-> use_rawinput,
      cmd_stack |-> cmd_stack, quitting |-> quitting,
      error_count |-> error_count, fatal_count |-> fatal_count,
      headers |-> headers, call |-> call, io |-> <<>>,
      returned |-> <<>>, reports |-> <<>>, ret |-> None, exc |-> "none",
      err |-> Msg("", <<>>) ]

CommandLineOutput_error(m, msg) ==
    [m EXCEPT !.error_count = @ + 1,
              !.reports = Append(@, [sev |-> "error", msg |-> msg])]

CommandLineOutput_fatal(m, msg) ==
    [m EXCEPT !.fatal_count = @ + 1,
              !.reports = Append(@, [sev |-> "fatal", msg |-> msg])]

\* info, debug and good record nothing the model keeps.
CommandLineOutput_info(m, msg) == m

CommandLineOutput_write_prompt(m) ==
    [m EXCEPT !.error_count = 0, !.fatal_count = 0]

CommandLineOutput_flush(m) == CommandLineOutput_write_prompt(m)

\* The sink as an object of its own.  captured_output is None ("on" false)
\* or a list; logged is what the sink handed to the logger and displayed the
\* prompt texts it wrote to the terminal, since construction; exc is the
\* exception that left the last call of the sink ("none": it returned).
NL == "\n"
Severities == {"debug", "info", "good", "error", "fatal"}
NoCapture == [on |-> FALSE, buf |-> <<>>]

CommandLineOutput_init ==
    [ captured_output |-> NoCapture, error_count |-> 0, fatal_count |-> 0,
      buffered_output |-> <<>>, logged |-> <<>>, displayed |-> <<>>,
      exc |-> "none" ]

NoSinkOp == [op |-> "init", msg |-> Msg(<<>>, <<>>), before |-> CommandLineOutput_init]

\* msg % args, for a format given as its pieces: each "%s" takes the next argument.
RECURSIVE Format(_, _)
Format(fmt, args) ==
    IF fmt = <<>> THEN <<>>
    ELSE IF Head(fmt) = "%s"
         THEN <<Head(args)>> \o Format(Tail(fmt), Tail(args))
         ELSE <<Head(fmt)>> \o Format(Tail(fmt), args)

Line(sev, msg) == [sev |-> sev, line |-> Format(msg.fmt, msg.args)]

\* The number of conversions in a format.
Conversions(fmt) == Cardinality({ i \in 1..Len(fmt) : fmt[i] = "%s" })

\* msg % args raises TypeError unless every conversion has its argument and
\* every argument its conversion; it is evaluated only for the capture.
Raises(o, msg) == o.captured_output.on /\ Conversions(msg.fmt) # Len(msg.args)

\* captured_output.append((sev, msg % args)) under 'is not None'.
Capture(o, sev, msg) ==
    IF o.captured_output.on
    THEN [o EXCEPT !.captured_output.buf = Append(@, Line(sev, msg))]
    ELSE o

\* self.log.<sev>(msg, *args): the logger formats only when there are args.
Log(o, sev, msg) ==
    [o EXCEPT !.logged = Append(@, IF msg.args = <<>>
                                   THEN [sev |-> sev, line |-> msg.fmt]
                                   ELSE Line(sev, msg))]

Sink_set_capture_output(o, capture_output) ==
    [o EXCEPT !.captured_output = IF capture_output
                                  THEN [on |-> TRUE, buf |-> <<>>]
                                  ELSE NoCapture]

Sink_debug(o, msg) == Log(o, "debug", msg)

Sink_info(o, msg) ==
    IF Raises(o, msg) THEN [o EXCEPT !.exc = "TypeError"]
    ELSE Log(Capture(o, "info", msg), "info", msg)

Sink_good(o, msg) == Log(o, "good", msg)

Sink_error(o, msg) ==
    IF Raises(o, msg) THEN [o EXCEPT !.exc = "TypeError"]
    ELSE Log([Capture(o, "error", msg) EXCEPT !.error_count = @ + 1], "error", msg)

Sink_fatal(o, msg) ==
    IF Raises(o, msg) THEN [o EXCEPT !.exc = "TypeError"]
    ELSE Log([Capture(o, "fatal", msg) EXCEPT !.fatal_count = @ + 1], "fatal", msg)

\* The loop of write: every line that is complete goes to info, the rest is
\* kept.  The line is the format of info, without arguments; an exception of
\* info leaves the loop.
RECURSIVE Sink_write_lines(_, _)
Sink_write_lines(o, string) ==
    IF \A i \in 1..Len(string) : string[i] # NL
    THEN [o EXCEPT !.buffered_output = string]
    ELSE LET nl_index == CHOOSE i \in 1..Len(string) :
                            /\ string[i] = NL
                            /\ \A j \in 1..(i - 1) : string[j] # NL
             o1 == Sink_info(o, Msg(SubSeq(string, 1, nl_index - 1), <<>>))
         IN IF o1.exc # "none" THEN o1
            ELSE Sink_write_lines(o1, SubSeq(string, nl_index + 1, Len(string)))

Sink_write(o, string) ==
    Sink_write_lines([o EXCEPT !.buffered_output = <<>>], o.buffered_output \o string)

Sink_write_prompt(o, prompt) ==
    [o EXCEPT !.displayed = Append(@, prompt),
              !.captured_output = [on |-> TRUE, buf |-> <<>>],
              !.error_count = 0,
              !.fatal_count = 0]

Sink_flush(o) ==
    Sink_write_prompt([o EXCEPT !.buffered_output = <<>>], o.buffered_output)

\* ------------------------------------------------------------------ shells
NoFile == "None"
FileNames == {NoFile, "cmds.txt"}

NoRes == [none |-> TRUE, id |-> "", has_endpoints |-> FALSE, endpoints |-> {}]
DeviceRecords ==
    { [none |-> FALSE, id |-> "d1", has_endpoints |-> FALSE, endpoints |-> {}],
      [none |-> FALSE, id |-> "d1", has_endpoints |-> TRUE, endpoints |-> {"1"}] }
ThingRecords ==
    { [none |-> FALSE, id |-> "t1", has_endpoints |-> FALSE, endpoints |-> {}] }
\* Any other 200 response: a list, or a body nobody reads.
SomeBody == [none |-> FALSE, id |-> "", has_endpoints |-> FALSE, endpoints |-> {}]

\* CommandLineBase.__init__ and the subclass constructors.  mode is the place
\* of the shell's auto_cmdloop_internal: "onecmd" while it runs the line it
\* was given, "cmdloop" once it is in cmdloop.
CommandLineBase_init(stack, kind, filename) ==
    [ kind |-> kind, filename |-> filename, line_num |-> 0, command |-> None,
      cmd_prompt |-> IF Len(stack) = 0 THEN "cli" ELSE stack[Len(stack)].command,
      cmdloop_executed |-> FALSE, mode |-> "onecmd", res |-> NoRes,
      prompt |-> <<"(Cmd) ">> ]

CommandLine_init(stack, filename) == CommandLineBase_init(stack, "root", filename)

GatewayCommandLine_init(stack, gateway_url) ==
    [CommandLineBase_init(stack, "gateway", NoFile) EXCEPT !.cmd_prompt = gateway_url]

GatewayDeviceCommandLine_init(stack, device) ==
    [CommandLineBase_init(stack, "device", NoFile) EXCEPT
        !.res = device, !.cmd_prompt = device.id]

GatewayThingCommandLine_init(stack, thing) ==
    [CommandLineBase_init(stack, "thing", NoFile) EXCEPT
        !.res = thing, !.cmd_prompt = thing.id]

Depth(m) == Len(m.cmd_stack)
Top(m) == m.cmd_stack[Len(m.cmd_stack)]
SetTop(m, shell) == [m EXCEPT !.cmd_stack[Len(m.cmd_stack)] = shell]
Raise(m, exc) == [m EXCEPT !.exc = exc, !.ret = None]
RaiseValueError(m, msg) == [m EXCEPT !.exc = "ValueError", !.ret = None, !.err = msg]
Return(m, value) == [m EXCEPT !.ret = value, !.exc = "none"]

\* ----------------------------------------------------------------- Gateway
NoCall ==
    [ state |-> "none", method |-> "", path |-> <<>>, cont |-> "", rest |-> <<>>,
      requests |-> <<>>, answers |-> <<>>, logins |-> 0, prompts |-> 0,
      fails |-> 0, login_results |-> <<>>, result |-> NoRes ]

NoAuth == <<>>
Bearer(jwt) == <<"Bearer ", jwt>>

\* set_jwt that stores the credential and leaves the header as it was.
Mutant_set_jwt_keeps_header(m, jwt) ==
    LET o == GatewayConfig_set(m.s, "jwt", jwt)
    IN IF o.exc # "none"
       THEN Raise([m EXCEPT !.s = o.s], o.exc)
       ELSE [m EXCEPT !.s = o.s]

\* Gateway.set_jwt
Gateway_set_jwt(m, jwt) ==
    LET o == GatewayConfig_set(m.s, "jwt", jwt)
    IN IF o.exc # "none"
       THEN Raise([m EXCEPT !.s = o.s], o.exc)
       ELSE [m EXCEPT !.s = o.s, !.headers = Bearer(jwt)]

\* Gateway.__init__
Gateway_init(m) ==
    LET o == GatewayConfig_get(m.s, "jwt")
        m1 == [m EXCEPT !.headers = NoAuth]
    IN IF o.exc # "none" THEN Raise(m1, o.exc)
       ELSE IF o.ret # "" THEN Gateway_set_jwt(m1, o.ret)
       ELSE m1

\* requests.get / requests.put / requests.post: the request goes out with the
\* headers as they are now, and the program waits for the answer.
SendRequest(m) ==
    [m EXCEPT !.call.requests = Append(@, [method |-> m.call.method,
                                           path |-> m.call.path,
                                           auth |-> m.headers]),
              !.pc = "http"]

\* Gateway.get and Gateway.put, from the call to the first request.  cont
\* names the caller that goes on with the result, rest what it still has to do.
Gateway_call(m, method, path, cont, rest) ==
    SendRequest([m EXCEPT !.call = [NoCall EXCEPT !.state = "active",
                                                  !.method = method, !.path = path,
                                                  !.cont = cont, !.rest = rest]])

Gateway_get(m, path, cont, rest) == Gateway_call(m, "GET", path, cont, rest)
Gateway_put(m, path, cont, rest) == Gateway_call(m, "PUT", path, cont, rest)

\* Gateway.login, entered from get/put after a 401: the first prompt.
Gateway_login(m) ==
    [m EXCEPT !.call.logins = @ + 1, !.call.prompts = @ + 1,
              !.call.fails = 0, !.pc = "email"]

\* login() has returned (its value is not read): get/put go round their loop.
\* how it ended ("eof", "conn", "ok") and the credential it got are noted.
Gateway_after_login(m, how, jwt) ==
    SendRequest([m EXCEPT !.call.login_results = Append(@, [how |-> how, jwt |-> jwt])])

\* get/put return: the call is over with this result (NoRes: None).
Gateway_return(m, result) ==
    [m EXCEPT !.call.state = "returned", !.call.result = result]

\* Gateway.device, Gateway.thing, ... : the URL each asks for.
Gateway_device(m, name, cont, rest) ==
    Gateway_get(m, <<"/debug/device/", name>>, cont, rest)

Gateway_devices(m) == Gateway_get(m, <<"/debug/devices">>, "devices", <<>>)

Gateway_thing(m, id, cont, rest) == Gateway_get(m, <<"/things/", id>>, cont, rest)

Gateway_things(m) == Gateway_get(m, <<"/things">>, "things", <<>>)

Gateway_properties(m, id) ==
    Gateway_get(m, <<"/things/", id, "/properties">>, "properties", <<>>)

Gateway_property(m, id, propertyName, rest) ==
    Gateway_get(m, <<"/things/", id, "/properties/", propertyName>>, "property", rest)

Gateway_debugCmd(m, deviceId, cmd) ==
    Gateway_put(m, <<"/debug/device/", deviceId, "/cmd/", cmd>>, "debugCmd", <<>>)

Gateway_discoverAttr(m, deviceId) ==
    Gateway_put(m, <<"/debug/device/", deviceId, "/cmd/discoverAttr">>, "discoverAttr", <<>>)

Gateway_readAttr(m, deviceId) ==
    Gateway_put(m, <<"/debug/device/", deviceId, "/cmd/readAttr">>, "readAttr", <<>>)

Gateway_bind(m, deviceId) ==
    Gateway_put(m, <<"/debug/device/", deviceId, "/cmd/bind">>, "bind", <<>>)

Gateway_bindings(m, deviceId) ==
    Gateway_put(m, <<"/debug/device/", deviceId, "/cmd/bindings">>, "bindings", <<>>)

\* ------------------------------------------------------- the auto_cmdloop driver
\* ' '.join(words), as the sequence of its pieces.
RECURSIVE Join(_, _)
Join(sep, words) ==
    IF Len(words) <= 1 THEN words
    ELSE <<Head(words), sep>> \o Join(sep, Tail(words))

\* update_prompt that shows the fragment of its own shell only.
Mutant_update_prompt_own_fragment(m) ==
    SetTop(m, [Top(m) EXCEPT !.prompt = IF m.use_rawinput
                                        THEN <<Top(m).cmd_prompt, "> ">>
                                        ELSE <<>>])

\* CommandLineBase.update_prompt of the top shell.
CommandLineBase_update_prompt(m) ==
    LET prompts == [i \in 1..Len(m.cmd_stack) |-> m.cmd_stack[i].cmd_prompt]
    IN SetTop(m, [Top(m) EXCEPT !.prompt = IF m.use_rawinput
                                           THEN Join(" ", prompts) \o <<"> ">>
                                           ELSE <<>>])

\* CommandLineBase.postcmd.
CommandLineBase_postcmd(m) == CommandLineBase_update_prompt(m)

\* CommandLineBase.cmdloop up to the first read: preloop has set the prompt
\* and the shell waits for a line.
CommandLineBase_cmdloop(m) ==
    [CommandLineBase_update_prompt(
         SetTop(m, [Top(m) EXCEPT !.cmdloop_executed = TRUE, !.mode = "cmdloop"]))
        EXCEPT !.pc = "read"]

\* auto_cmdloop('') as the handlers call it for a nested shell: the push, and
\* auto_cmdloop_internal's first branch.
CommandLineBase_auto_cmdloop(m, shell) ==
    CommandLineBase_cmdloop([m EXCEPT !.cmd_stack = Append(@, shell)])

\* ------------------------------------------------------------- the handlers
do_quit(m, args) == Return([m EXCEPT !.quitting = TRUE], True)

\* Cmd.do_help writes to the sink; nothing is counted.
do_help(m, args) == Return(CommandLineOutput_info(m, Msg("%s", <<"help">>)), None)

\* CommandLine.gateway_names: self.config.get('gateways').keys()
CommandLine_gateway_names(m) ==
    LET o == GatewayConfig_get(m.s, "gateways")
    IN IF o.exc # "none" THEN Raise(m, o.exc)
       ELSE IF o.ret = "" THEN Raise(m, "AttributeError")
       ELSE Return(m, o.ret)

do_gateways(m, args) ==
    LET m1 == CommandLine_gateway_names(m)
    IN IF m1.exc # "none" THEN m1 ELSE Return(m1, None)

do_gateway(m, args) ==
    IF Len(args) # 1
    THEN RaiseValueError(m, Msg("Expecting 1 argument1, found %d", <<Len(args)>>))
    ELSE LET o == GatewayConfig_set_root(m.s, "gateways", args[1])
             m1 == Gateway_init([m EXCEPT !.s = o.s])
         IN IF m1.exc # "none" THEN m1
            ELSE CommandLineBase_auto_cmdloop(
                     m1, GatewayCommandLine_init(m1.cmd_stack, args[1]))

do_args(m, args) == Return(CommandLineOutput_info(m, Msg("args line = '%s'", args)), None)

do_echo(m, args) == Return(CommandLineOutput_info(m, Msg("%s", args)), None)

\* device that opens a device shell without asking the gateway for a record.
Mutant_device_pushes_unasked(m, args) ==
    IF Len(args) # 1
    THEN RaiseValueError(m, Msg("Expecting 1 argument, found %d", <<Len(args)>>))
    ELSE CommandLineBase_auto_cmdloop(
             m, GatewayDeviceCommandLine_init(m.cmd_stack, NoRes))

do_device(m, args) ==
    IF Len(args) # 1
    THEN RaiseValueError(m, Msg("Expecting 1 argument, found %d", <<Len(args)>>))
    ELSE Gateway_device(m, args[1], "device", args)

do_devices(m, args) == Gateway_devices(m)

do_thing(m, args) ==
    IF Len(args) # 1
    THEN RaiseValueError(m, Msg("Expecting 1 argument, found %d", <<Len(args)>>))
    ELSE Gateway_thing(m, args[1], "thing", args)

do_things(m, args) == Gateway_things(m)

\* self.device['id'] of a device shell whose record is None raises TypeError.
do_adapter_devices(m, args) ==
    IF Top(m).res.none THEN Raise(m, "TypeError")
    ELSE Gateway_debugCmd(m, Top(m).res.id, "devices")

do_adapter_info(m, args) ==
    IF Top(m).res.none THEN Raise(m, "TypeError")
    ELSE Gateway_debugCmd(m, Top(m).res.id, "info")

do_bind(m, args) ==
    IF Len(args) # 2
    THEN RaiseValueError(m, Msg("Expecting 2 arguments, found %d", <<Len(args)>>))
    ELSE IF Top(m).res.none THEN Raise(m, "TypeError")
    ELSE Gateway_bind(m, Top(m).res.id)

do_bindings(m, args) ==
    IF Top(m).res.none THEN Raise(m, "TypeError")
    ELSE Gateway_bindings(m, Top(m).res.id)

do_debug(m, args) ==
    IF Top(m).res.none THEN Raise(m, "TypeError")
    ELSE Gateway_debugCmd(m, Top(m).res.id, "debug")

do_discover(m, args) ==
    IF Top(m).res.none THEN Raise(m, "TypeError")
    ELSE Gateway_discoverAttr(m, Top(m).res.id)

do_device_info(m, args) ==
    IF Top(m).res.none THEN Raise(m, "TypeError")
    ELSE Gateway_device(m, Top(m).res.id, "device_info", <<>>)

\* read that sends the request whatever the endpoint.
Mutant_read_any_endpoint(m, args) ==
    IF Len(args) < 3
    THEN RaiseValueError(m, Msg("Expecting 2 or more arguments, found %d", <<Len(args)>>))
    ELSE IF Top(m).res.none THEN Raise(m, "TypeError")
    ELSE IF Top(m).res.has_endpoints
         THEN Gateway_readAttr(m, Top(m).res.id)
         ELSE Return(CommandLineOutput_error(
                         m, Msg("No activeEndpoints found in device", <<>>)), None)

\* read that says nothing of a record without activeEndpoints.
Mutant_read_silent(m, args) ==
    IF Len(args) < 3
    THEN RaiseValueError(m, Msg("Expecting 2 or more arguments, found %d", <<Len(args)>>))
    ELSE IF Top(m).res.none THEN Raise(m, "TypeError")
    ELSE IF Top(m).res.has_endpoints
         THEN IF args[1] \notin Top(m).res.endpoints
              THEN RaiseValueError(m, Msg("Unknown endpoint: %s", <<args[1]>>))
              ELSE Gateway_readAttr(m, Top(m).res.id)
         ELSE Return(m, None)

do_read(m, args) ==
    IF Len(args) < 3
    THEN RaiseValueError(m, Msg("Expecting 2 or more arguments, found %d", <<Len(args)>>))
    ELSE IF Top(m).res.none THEN Raise(m, "TypeError")
    ELSE IF Top(m).res.has_endpoints
         THEN IF args[1] \notin Top(m).res.endpoints
              THEN RaiseValueError(m, Msg("Unknown endpoint: %s", <<args[1]>>))
              ELSE Gateway_readAttr(m, Top(m).res.id)
         ELSE Return(CommandLineOutput_error(
                         m, Msg("No activeEndpoints found in device", <<>>)), None)

\* GatewayThingCommandLine.id: self.thing['href'] of a record that is None
\* raises TypeError.
do_thing_info(m, args) ==
    IF Top(m).res.none THEN Raise(m, "TypeError")
    ELSE Gateway_thing(m, Top(m).res.id, "thing_info", <<>>)

do_properties(m, args) ==
    IF Top(m).res.none THEN Raise(m, "TypeError")
    ELSE Gateway_properties(m, Top(m).res.id)

\* One round of do_property's loop over its arguments.
do_property(m, args) ==
    IF Len(args) = 0 THEN Return(m, None)
    ELSE IF Top(m).res.none THEN Raise(m, "TypeError")
    ELSE Gateway_property(m, Top(m).res.id, args[1], Tail(args))

\* ---------------------------------------------------------------- dispatch
\* A typed line is the sequence of its pieces: words, and the characters SP
\* (a run of blanks), HASH and BS where they are typed.  Words are typed with
\* blanks between them.
SP == " "
HASH == "#"
BS == "\\"
EOF_LINE == <<"EOF">>

\* str.strip: the line without its leading and trailing blanks.
RECURSIVE Strip(_)
Strip(text) ==
    IF text = <<>> THEN text
    ELSE IF Head(text) = SP THEN Strip(Tail(text))
    ELSE IF text[Len(text)] = SP THEN Strip(SubSeq(text, 1, Len(text) - 1))
    ELSE text

\* line.find('#'): the first place of a HASH, 0 for none (Python: -1).
Find(text, c) ==
    IF \E i \in 1..Len(text) : text[i] = c
    THEN CHOOSE i \in 1..Len(text) :
            /\ text[i] = c
            /\ \A j \in 1..(i - 1) : text[j] # c
    ELSE 0

\* onecmd, 'Strip comments'.
StripComments(text) ==
    LET comment_idx == Find(text, HASH)
    IN IF comment_idx > 0 THEN Strip(SubSeq(text, 1, comment_idx - 1)) ELSE text

\* The words of a line: Cmd.parseline's command and the handler's arg.split().
Split(text) == SelectSeq(text, LAMBDA c : c # SP)

\* The do_ methods of each class.
Commands(kind) ==
    {"help", "quit"} \cup
    CASE kind = "root" -> {"gateway", "gateways", "args", "echo"}
      [] kind = "gateway" -> {"device", "devices", "thing", "things"}
      [] kind = "device" -> {"adapter_devices", "adapter_info", "bind", "bindings",
                             "debug", "discover", "info", "read"}
      [] kind = "thing" -> {"info", "properties", "property"}

\* command.replace('-', '_') on the command names the model types.
Underscored(command) ==
    CASE command = "adapter-devices" -> "adapter_devices"
      [] command = "adapter-info" -> "adapter_info"
      [] OTHER -> command

\* getattr(self, 'do_' + cmd)(arg)
Handler(m, cmd, args) ==
    LET kind == Top(m).kind
    IN CASE cmd = "quit" -> do_quit(m, args)
         [] cmd = "help" -> do_help(m, args)
         [] cmd = "gateway" -> do_gateway(m, args)
         [] cmd = "gateways" -> do_gateways(m, args)
         [] cmd = "args" -> do_args(m, args)
         [] cmd = "echo" -> do_echo(m, args)
         [] cmd = "device" -> do_device(m, args)
         [] cmd = "devices" -> do_devices(m, args)
         [] cmd = "thing" -> do_thing(m, args)
         [] cmd = "things" -> do_things(m, args)
         [] cmd = "adapter_devices" -> do_adapter_devices(m, args)
         [] cmd = "adapter_info" -> do_adapter_info(m, args)
         [] cmd = "bind" -> do_bind(m, args)
         [] cmd = "bindings" -> do_bindings(m, args)
         [] cmd = "debug" -> do_debug(m, args)
         [] cmd = "discover" -> do_discover(m, args)
         [] cmd = "info" /\ kind = "device" -> do_device_info(m, args)
         [] cmd = "info" /\ kind = "thing" -> do_thing_info(m, args)
         [] cmd = "read" -> do_read(m, args)
         [] cmd = "properties" -> do_properties(m, args)
         [] cmd = "property" -> do_property(m, args)

\* Cmd.default: the line is written to stdout as unknown syntax, no error.
Mutant_default_unknown_syntax(m, line) ==
    Return(CommandLineOutput_info(m, Msg("*** Unknown syntax: %s", line)), None)

\* default: a line whose command has no do_ method in the shell.
CommandLineBase_default(m, line) ==
    RaiseValueError(m, Msg("Unrecognized command: '%s'", line))

\* An emptyline that ends the loop of its shell.
Mutant_emptyline_stops(m) == Return(m, True)

\* emptyline: nothing is done, and nothing is returned.
CommandLineBase_emptyline(m) == Return(m, None)

\* Cmd.onecmd with the parseline and emptyline of CommandLineBase.
Cmd_onecmd(m, text) ==
    LET line == Split(text)
    IN IF Len(line) = 0
       THEN CommandLineBase_emptyline(SetTop(m, [Top(m) EXCEPT !.command = None]))
       ELSE LET m1 == SetTop(m, [Top(m) EXCEPT !.command = line[1]])
                cmd == Underscored(line[1])
            IN IF cmd \in Commands(Top(m).kind)
               THEN Handler(m1, cmd, Tail(line))
               ELSE CommandLineBase_default(m1, line)

\* handle_exception that takes no error for a fatal one.
Mutant_handle_exception_never_fatal(m) ==
    Return(CommandLineOutput_error(m, Msg("Error: %s", <<m.err>>)), None)

\* handle_exception that takes every error for a fatal one.
Mutant_handle_exception_always_fatal(m) ==
    LET base == m.cmd_stack[1]
    IN Return([CommandLineOutput_error(
                   m, Msg("File: %s Line: %d Error: %s",
                          <<base.filename, base.line_num, m.err>>))
                  EXCEPT !.quitting = TRUE], True)

CommandLineBase_handle_exception(m) ==
    LET base == m.cmd_stack[1]
    IN IF base.filename # NoFile
       THEN Return([CommandLineOutput_error(
                        m, Msg("File: %s Line: %d Error: %s",
                               <<base.filename, base.line_num, m.err>>))
                       EXCEPT !.quitting = TRUE], True)
       ELSE Return(CommandLineOutput_error(m, Msg("Error: %s", <<m.err>>)), None)

\* CommandLineBase.onecmd up to the place where the handler returns, raises
\* or waits.  The except clause is in Resume: it also guards what a handler
\* does after a wait.
CommandLineBase_onecmd(m, line) ==
    LET m1 == SetTop(m, [Top(m) EXCEPT !.line_num = @ + 1])
    IN IF line = EOF_LINE THEN Return(m1, True)
       ELSE Cmd_onecmd(m1, StripComments(line))

\* main after cmd_line.auto_cmdloop has returned.
main_end(m) ==
    LET o == GatewayConfig_save(m.s)
    IN [m EXCEPT !.s = o.s, !.io = o.io, !.pc = "done"]

\* auto_cmdloop that returns None whether or not the process is quitting.
Mutant_auto_cmdloop_returns_none(m) ==
    [m EXCEPT !.cmd_stack = SubSeq(@, 1, Len(@) - 1),
              !.returned = Append(@, None),
              !.ret = None]

\* auto_cmdloop_internal's last two lines and auto_cmdloop's pop: the value
\* the call returns is the top shell's handler's value in the shell below.
CommandLineBase_auto_cmdloop_return(m) ==
    LET stop == IF m.quitting THEN True ELSE None
    IN [m EXCEPT !.cmd_stack = SubSeq(@, 1, Len(@) - 1),
                 !.returned = Append(@, stop),
                 !.ret = stop]

\* An except clause that returns the stop signal and leaves the flag unset.
Mutant_interrupted_without_quitting(m) ==
    [m EXCEPT !.cmd_stack = SubSeq(@, 1, Len(@) - 1),
              !.returned = Append(@, True),
              !.ret = True, !.exc = "none"]

\* auto_cmdloop_internal's except clause.
CommandLineBase_auto_cmdloop_interrupted(m) ==
    [m EXCEPT !.cmd_stack = SubSeq(@, 1, Len(@) - 1),
              !.quitting = TRUE,
              !.returned = Append(@, True),
              !.ret = True, !.exc = "none"]

\* The program from the place where the top shell's handler has returned
\* (m.ret) or raised (m.exc) to the place where it waits next or ends:
\* onecmd's except clause, postcmd and the loop test of Cmd.cmdloop, the rest
\* of auto_cmdloop_internal, auto_cmdloop's pop, and the same in every shell
\* below as long as each returns.
RECURSIVE Resume(_)
Resume(m) ==
    IF m.pc # "run" THEN m
    ELSE IF m.exc = "ValueError" THEN Resume(CommandLineBase_handle_exception(m))
    ELSE IF m.exc = "KeyboardInterrupt"
         THEN LET m1 == CommandLineBase_auto_cmdloop_interrupted(m)
              IN IF Len(m1.cmd_stack) = 0 THEN main_end(m1) ELSE Resume(m1)
    ELSE IF m.exc # "none" THEN [m EXCEPT !.pc = "crashed"]
    ELSE IF Top(m).mode = "cmdloop" /\ ~Truthy(m.ret)
         THEN [CommandLineBase_postcmd(m) EXCEPT !.pc = "read"]
    ELSE IF Top(m).mode = "onecmd" /\ Top(m).cmdloop_executed /\ ~m.quitting
         THEN CommandLineBase_cmdloop(m)
    ELSE LET m1 == CommandLineBase_auto_cmdloop_return(m)
         IN IF Len(m1.cmd_stack) = 0 THEN main_end(m1) ELSE Resume(m1)

\* ------------------------------------------------ the callers of get and put
\* What the caller of get/put does with the result once the call has returned.
Gateway_continue(m) ==
    LET r == m.call.result
        c == m.call.cont
    IN CASE c = "device" ->
              IF ~r.none
              THEN CommandLineBase_auto_cmdloop(
                       m, GatewayDeviceCommandLine_init(m.cmd_stack, r))
              ELSE Return(CommandLineOutput_error(
                              m, Msg("No device found with the id \"%s\"", m.call.rest)),
                          None)
         [] c = "thing" ->
              IF ~r.none
              THEN CommandLineBase_auto_cmdloop(
                       m, GatewayThingCommandLine_init(m.cmd_stack, r))
              ELSE Return(CommandLineOutput_error(
                              m, Msg("No thing found with the id \"%s\"", m.call.rest)),
                          None)
         [] c \in {"devices", "things"} ->
              IF r.none THEN Raise(m, "TypeError") ELSE Return(m, None)
         [] c \in {"debugCmd", "discoverAttr", "readAttr"} ->
              IF r.none THEN Raise(m, "AttributeError") ELSE Return(m, None)
         [] c \in {"bind", "bindings", "properties"} -> Return(m, None)
         [] c \in {"device_info", "thing_info"} ->
              Return(SetTop(m, [Top(m) EXCEPT !.res = r]), None)
         [] c = "property" -> do_property(m, m.call.rest)
         \* a caller outside the shells: it has the result and calls again
         [] c = "api" -> [m EXCEPT !.pc = "idle"]

\* get/put that reports every answer but 200 and 401 as a failure.
Mutant_response_404_is_error(m, status, body) ==
    LET m1 == [m EXCEPT !.call.answers =
                            Append(@, [status |-> status,
                                       body |-> IF status = "200" THEN body ELSE NoRes]),
                        !.pc = "run"]
    IN CASE status = "conn" ->
              Gateway_continue(Gateway_return(
                  CommandLineOutput_error(m1, Msg("Unable to connect to server: %s",
                                                  m1.call.path)), NoRes))
         [] status = "200" -> Gateway_continue(Gateway_return(m1, body))
         [] status = "401" -> Gateway_login(m1)
         [] OTHER ->
              Gateway_continue(Gateway_return(
                  CommandLineOutput_error(m1, Msg("GET failed: %s - %s", <<status>>)),
                  NoRes))

\* The body of the loop of get/put once the answer is there.  status "conn"
\* is requests.exceptions.ConnectionError.
Gateway_response(m, status, body) ==
    LET m1 == [m EXCEPT !.call.answers =
                            Append(@, [status |-> status,
                                       body |-> IF status = "200" THEN body ELSE NoRes]),
                        !.pc = "run"]
    IN CASE status = "conn" ->
              Gateway_continue(Gateway_return(
                  CommandLineOutput_error(m1, Msg("Unable to connect to server: %s",
                                                  m1.call.path)), NoRes))
         [] status = "200" -> Gateway_continue(Gateway_return(m1, body))
         [] status = "404" -> Gateway_continue(Gateway_return(m1, NoRes))
         [] status = "401" -> Gateway_login(m1)
         [] OTHER ->
              Gateway_continue(Gateway_return(
                  CommandLineOutput_error(m1, Msg("GET failed: %s - %s", <<status>>)),
                  NoRes))

\* login() at 'Enter    email: '.  input "eof" is Control-D.
Gateway_login_email(m, input) ==
    IF input = "eof" THEN Gateway_after_login(m, "eof", "")
    ELSE [m EXCEPT !.pc = "password"]

\* login() at 'Enter password: ', and the POST of /login.
Gateway_login_password(m, input) ==
    IF input = "eof" THEN Gateway_after_login(m, "eof", "")
    ELSE [m EXCEPT !.pc = "post"]

\* login() once /login has answered.
Gateway_login_post(m, status, jwt) ==
    CASE status = "conn" ->
           Gateway_after_login(
               CommandLineOutput_error(m, Msg("Unable to connect to server: %s",
                                              <<"/login">>)), "conn", "")
      [] status = "200" -> Gateway_after_login(Gateway_set_jwt(m, jwt), "ok", jwt)
      [] OTHER ->
           [CommandLineOutput_error(m, Msg("Login failed: %s", <<status>>))
               EXCEPT !.call.prompts = @ + 1, !.call.fails = @ + 1, !.pc = "email"]

\* ----------------------------------------------------------------- inputs
\* The lines typed at each shell: every command of the shell with a right
\* and, where it counts them, a wrong number of arguments, an unknown
\* command, and the empty line.
CommonLines == { <<"quit">>, <<"help">>, <<"bogus">>, <<>>, EOF_LINE }
LinesOf(kind) ==
    CommonLines \cup
    CASE kind = "root" ->
           { <<"gateway">>, <<"gateway", "g1">>, <<"gateway", "g1", "g2">>,
             <<"gateways">>, <<"args", "a">>, <<"echo", "a">> }
      [] kind = "gateway" ->
           { <<"device">>, <<"device", "d1">>, <<"device", "d1", "d2">>, <<"devices">>,
             <<"thing">>, <<"thing", "t1">>, <<"things">> }
      [] kind = "device" ->
           { <<"adapter-devices">>, <<"adapter-info">>, <<"bind", "1">>,
             <<"bind", "1", "6">>, <<"bindings">>, <<"debug", "flow">>,
             <<"discover">>, <<"info">>, <<"read", "1", "6">>,
             <<"read", "1", "6", "0">>, <<"read", "2", "6", "0">> }
      [] kind = "thing" ->
           { <<"info">>, <<"properties">>, <<"property">>, <<"property", "on">> }

\* A line as it is typed, with one blank between its words.
Typed(line) == Join(SP, line)

\* The texts typed at each shell: the lines above, and lines of blanks, with
\* a comment, and with a HASH behind a backslash.
TextsOf(kind) ==
    { Typed(line) : line \in LinesOf(kind) } \cup
    { <<SP>>, <<HASH, "note">>, <<"help", SP, HASH, "note">>,
      <<"help", SP, BS, HASH, "b">> } \cup
    (IF kind = "device" THEN { <<"adapter_devices">> } ELSE {})

\* The command line of the process: empty, or one command.
ArgvLines == { <<>>, <<"gateway", "g1">>, <<"gateway">>, <<"quit">>, <<"bogus">>,
               <<"gateways">>, <<"echo", "a">> }

Statuses == {"200", "401", "404", "500", "conn"}

\* The bodies a 200 answer to the caller's request can carry.
Bodies(cont) ==
    CASE cont \in {"device", "device_info"} -> DeviceRecords
      [] cont \in {"thing", "thing_info"} -> ThingRecords
      [] OTHER -> {SomeBody}

\* ---------------------------------------------------------------- the steps
NoDispatch ==
    [ active |-> FALSE, line |-> <<>>, kind |-> "", mode |-> "", depth |-> 0,
      res |-> NoRes, base_line_num |-> 0, errors |-> 0, fatals |-> 0,
      quitting |-> FALSE, file |-> NoFile, interrupted |-> FALSE,
      base_mode |-> "", at |-> "", text |-> <<>>, stripped |-> <<>>,
      stack |-> <<>> ]

\* What a dispatch starts from: m is the machine as onecmd is entered with
\* the text; stripped is what onecmd hands to Cmd.onecmd and line its words.
Dispatching(m, text) ==
    [ active |-> TRUE, text |-> text,
      stripped |-> IF text = EOF_LINE THEN text ELSE StripComments(text),
      line |-> IF text = EOF_LINE THEN text ELSE Split(StripComments(text)),
      stack |-> m.cmd_stack,
      kind |-> Top(m).kind, mode |-> Top(m).mode,
      depth |-> Depth(m), res |-> Top(m).res,
      base_line_num |-> m.cmd_stack[1].line_num,
      errors |-> m.error_count, fatals |-> m.fatal_count, quitting |-> m.quitting,
      file |-> m.cmd_stack[1].filename, interrupted |-> FALSE,
      base_mode |-> m.cmd_stack[1].mode, at |-> "" ]

SetMachine(m) ==
    /\ SetSession(m.s)
    /\ io' = m.io
    /\ pc' = m.pc
    /\ use_rawinput' = m.use_rawinput
    /\ cmd_stack' = m.cmd_stack
    /\ quitting' = m.quitting
    /\ error_count' = m.error_count
    /\ fatal_count' = m.fatal_count
    /\ headers' = m.headers
    /\ call' = m.call
    /\ returned' = m.returned
    /\ reports' = m.reports

\* The process once main has built its GatewayConfig.
Init ==
    /\ \E st \in InitialStores : SetupSession(GatewayConfig_init(st))
    /\ io = <<>>
    /\ session_op = NoOp
    /\ unsaved = FALSE
    /\ n_ops = 0
    /\ pc = "start"
    /\ use_rawinput = TRUE
    /\ cmd_stack = <<>>
    /\ quitting = FALSE
    /\ error_count = 0
    /\ fatal_count = 0
    /\ headers = NoAuth
    /\ call = NoCall
    /\ lines_left = MaxLines
    /\ gateway_left = [unauthorized |-> MaxUnauthorized, rejected |-> MaxRejected]
    /\ dispatched = NoDispatch
    /\ returned = <<>>
    /\ reports = <<>>
    /\ sink = CommandLineOutput_init
    /\ sink_op = NoSinkOp

\* main: CommandLine(config) and cmd_line.auto_cmdloop(' '.join(args.cmd)), to
\* the first wait.  filename and stdin are the keyword arguments of
\* CommandLineBase.__init__; main.py passes neither (its file-driven variant
\* is commented out), a caller of the class passes them to run a file.
main(filename, stdin, line) ==
    /\ pc = "start"
    /\ LET m0 == [TheMachine EXCEPT
                     !.use_rawinput = IF stdin THEN FALSE ELSE @,
                     !.cmd_stack = <<CommandLine_init(<<>>, filename)>>,
                     !.pc = "run"]
       IN IF Len(line) = 0
          THEN /\ SetMachine(CommandLineBase_cmdloop(m0))
               /\ dispatched' = NoDispatch
          ELSE /\ SetMachine(Resume(CommandLineBase_onecmd(m0, Typed(line))))
               /\ dispatched' = Dispatching(m0, Typed(line))
    /\ UNCHANGED <<lines_left, gateway_left, session_obs, sink_vars>>

\* Cmd.cmdloop shows the prompt: with use_rawinput off it writes it to the
\* sink and flushes the sink.
Prompted(m) == IF m.use_rawinput THEN m ELSE CommandLineOutput_flush(m)

\* One round of Cmd.cmdloop in the top shell: the prompt, the line read, its
\* dispatch, and what follows until the program waits again.
ReadLine ==
    /\ pc = "read"
    /\ \E line \in TextsOf(cmd_stack[Len(cmd_stack)].kind) :
          /\ line = EOF_LINE \/ lines_left > 0
          /\ LET m0 == [Prompted(TheMachine) EXCEPT !.pc = "run", !.call = NoCall]
             IN /\ SetMachine(Resume(CommandLineBase_onecmd(m0, line)))
                /\ dispatched' = Dispatching(m0, line)
    /\ lines_left' = IF lines_left > 0 THEN lines_left - 1 ELSE 0
    /\ UNCHANGED <<gateway_left, session_obs, sink_vars>>

\* Control-C while the program waits.  The observation notes where it
\* waited, the depth of the stack and the counters as the interrupt is raised.
Interrupt ==
    /\ pc \in {"read", "http", "email", "password", "post"}
    /\ LET m0 == IF pc = "read" THEN Prompted(TheMachine) ELSE TheMachine
       IN /\ SetMachine(Resume(Raise([m0 EXCEPT !.pc = "run"], "KeyboardInterrupt")))
          /\ dispatched' = [dispatched EXCEPT !.interrupted = TRUE,
                                              !.at = pc,
                                              !.depth = Depth(m0),
                                              !.errors = m0.error_count,
                                              !.fatals = m0.fatal_count]
    /\ UNCHANGED <<lines_left, gateway_left, session_obs, sink_vars>>

\* The gateway answers the request of get/put.
HttpResponse(status, body) ==
    /\ pc = "http"
    /\ status = "401" => gateway_left.unauthorized > 0
    /\ SetMachine(Resume(Gateway_response(TheMachine, status, body)))
    /\ gateway_left' = IF status = "401"
                       THEN [gateway_left EXCEPT !.unauthorized = @ - 1]
                       ELSE gateway_left
    /\ UNCHANGED <<lines_left, dispatched, session_obs, sink_vars>>

LoginEmail(input) ==
    /\ pc = "email"
    /\ SetMachine(Gateway_login_email(TheMachine, input))
    /\ UNCHANGED <<lines_left, gateway_left, dispatched, session_obs, sink_vars>>

LoginPassword(input) ==
    /\ pc = "password"
    /\ SetMachine(Gateway_login_password(TheMachine, input))
    /\ UNCHANGED <<lines_left, gateway_left, dispatched, session_obs, sink_vars>>

\* The gateway answers the POST of /login.
LoginPost(status, jwt) ==
    /\ pc = "post"
    /\ status \notin {"200", "conn"} => gateway_left.rejected > 0
    /\ SetMachine(Gateway_login_post(TheMachine, status, jwt))
    /\ gateway_left' = IF status \notin {"200", "conn"}
                       THEN [gateway_left EXCEPT !.rejected = @ - 1]
                       ELSE gateway_left
    /\ UNCHANGED <<lines_left, dispatched, session_obs, sink_vars>>

Next ==
    \/ \E filename \in FileNames, stdin \in BOOLEAN, line \in ArgvLines :
          main(filename, stdin, line)
    \/ ReadLine
    \/ Interrupt
    \/ \E status \in Statuses, body \in Bodies(call.cont) : HttpResponse(status, body)
    \/ \E input \in {"text", "eof"} : LoginEmail(input)
    \/ \E input \in {"text", "eof"} : LoginPassword(input)
    \/ \E status \in {"200", "403", "conn"}, jwt \in IssuedJWTs : LoginPost(status, jwt)

Spec == Init /\ [][Next]_vars

\* ------------------------------------------------- the session on its own
\* Any sequence of set_root, get, set and save on a GatewayConfig.
SessionDo(op, key, o) ==
    /\ n_ops < MaxOps
    /\ n_ops' = n_ops + 1
    /\ SetSession(o.s)
    /\ io' = o.io
    /\ session_op' = [op |-> op, key |-> key, ret |-> o.ret, exc |-> o.exc,
                      before |-> TheSession]
    /\ UNCHANGED <<shell_vars, sink_vars>>

SessionSetRoot(key, value) ==
    /\ SessionDo("set_root", key, GatewayConfig_set_root(TheSession, key, value))
    /\ UNCHANGED unsaved

SessionGet(key) ==
    /\ SessionDo("get", key, GatewayConfig_get(TheSession, key))
    /\ UNCHANGED unsaved

SessionSet(key, value) ==
    /\ SessionDo("set", key, GatewayConfig_set(TheSession, key, value))
    /\ unsaved' = TRUE

SessionSave ==
    /\ SessionDo("save", "", GatewayConfig_save(TheSession))
    /\ unsaved' = FALSE

SessionNext ==
    \/ \E key \in {"gateways", "things"}, value \in GatewayNames : SessionSetRoot(key, value)
    \/ \E key \in {"jwt", "gateways"} : SessionGet(key)
    \/ \E key \in {"jwt"}, value \in JWTs : SessionSet(key, value)
    \/ SessionSave

SessionSpec == Init /\ [][SessionNext]_vars

\* -------------------------------------------------- the client on its own
\* A Gateway as do_gateway builds it (set_root, then the constructor), and
\* any sequence of get and put calls on it.
ClientInit ==
    /\ \E st \in InitialStores :
          LET s == GatewayConfig_set_root(GatewayConfig_init(st), "gateways", "g1").s
              m == Gateway_init([s |-> s, headers |-> NoAuth, exc |-> "none", ret |-> None])
          IN /\ SetupSession(m.s)
             /\ headers = m.headers
    /\ io = <<>>
    /\ session_op = NoOp
    /\ unsaved = FALSE
    /\ n_ops = 0
    /\ pc = "idle"
    /\ use_rawinput = TRUE
    /\ cmd_stack = <<>>
    /\ quitting = FALSE
    /\ error_count = 0
    /\ fatal_count = 0
    /\ call = NoCall
    /\ lines_left = 0
    /\ gateway_left = [unauthorized |-> ClientUnauthorized, rejected |-> ClientRejected]
    /\ dispatched = NoDispatch
    /\ returned = <<>>
    /\ reports = <<>>
    /\ sink = CommandLineOutput_init
    /\ sink_op = NoSinkOp

ClientCall(method, path) ==
    /\ pc = "idle"
    /\ n_ops < MaxCalls
    /\ n_ops' = n_ops + 1
    /\ SetMachine(Gateway_call(TheMachine, method, path, "api", <<>>))
    /\ UNCHANGED <<lines_left, gateway_left, dispatched, session_op, unsaved, sink_vars>>

ClientNext ==
    \/ \E method \in {"GET", "PUT"} : ClientCall(method, <<"/things">>)
    \/ \E status \in Statuses : HttpResponse(status, SomeBody)
    \/ \E input \in {"text", "eof"} : LoginEmail(input)
    \/ \E input \in {"text", "eof"} : LoginPassword(input)
    \/ \E status \in {"200", "403", "conn"}, jwt \in IssuedJWTs : LoginPost(status, jwt)

ClientSpec == ClientInit /\ [][ClientNext]_vars

\* A run of the output sink on its own: any sequence of its calls.
SinkMsgs == { Msg(<<"n=", "%s">>, <<"1">>), Msg(<<"plain">>, <<>>) }
SinkTexts == { <<"a">>, <<"a", NL>>, <<NL, "b">>, <<NL, "b", NL, "c">>, <<"%s", NL>> }

\* The sink as a call finds it: the exception of the call before is gone.
TheSink == [sink EXCEPT !.exc = "none"]

SinkDo(op, msg, o) ==
    /\ n_ops' = n_ops + 1
    /\ sink' = o
    /\ sink_op' = [op |-> op, msg |-> msg, before |-> sink]
    /\ UNCHANGED <<session_vars, session_op, unsaved, shell_vars>>

SinkLog(sev, msg) ==
    /\ n_ops < MaxSinkOps
    /\ SinkDo(sev, msg,
              CASE sev = "debug" -> Sink_debug(TheSink, msg)
                [] sev = "info" -> Sink_info(TheSink, msg)
                [] sev = "good" -> Sink_good(TheSink, msg)
                [] sev = "error" -> Sink_error(TheSink, msg)
                [] sev = "fatal" -> Sink_fatal(TheSink, msg))

SinkWrite(string) ==
    /\ n_ops < MaxSinkOps
    /\ SinkDo("write", Msg(string, <<>>), Sink_write(TheSink, string))

SinkFlush ==
    /\ n_ops < MaxSinkOps
    /\ SinkDo("flush", Msg(<<>>, <<>>), Sink_flush(TheSink))

SinkSetCapture(capture_output) ==
    /\ n_ops < MaxSinkOps
    /\ SinkDo("set_capture_output", Msg(<<>>, <<>>),
              Sink_set_capture_output(TheSink, capture_output))

SinkNext ==
    \/ \E sev \in Severities, msg \in SinkMsgs : SinkLog(sev, msg)
    \/ \E string \in SinkTexts : SinkWrite(string)
    \/ SinkFlush
    \/ \E capture_output \in BOOLEAN : SinkSetCapture(capture_output)

SinkSpec == Init /\ [][SinkNext]_vars

\* ------------------------------------------------------------------ claims
\* The dispatched line: its command, the number of its arguments, and whether
\* the shell that got it has a handler for it.
DCmd == IF Len(dispatched.line) = 0 THEN "" ELSE Underscored(dispatched.line[1])
DArgs == Len(dispatched.line) - 1
DKnown ==
    /\ dispatched.active
    /\ ~dispatched.interrupted
    /\ Len(dispatched.line) > 0
    /\ DCmd \in Commands(dispatched.kind)
DUnknown ==
    /\ dispatched.active
    /\ ~dispatched.interrupted
    /\ Len(dispatched.line) > 0
    /\ dispatched.line # EOF_LINE
    /\ DCmd \notin Commands(dispatched.kind)
DWrongCount ==
    /\ DKnown
    /\ \/ DCmd \in {"gateway", "device", "thing"} /\ DArgs # 1
       \/ DCmd = "bind" /\ DArgs # 2
       \/ DCmd = "read" /\ DArgs < 3
DWellFormed == DKnown /\ ~DWrongCount
AllTrue(seq) == \A i \in 1..Len(seq) : seq[i] = True

\* C1: once quit has been dispatched in a shell at any depth, the quitting
\* flag is set, every auto_cmdloop on the stack has returned True in that same
\* step (no line is read in between), and the stack is empty.
C1_QuitUnwindsEveryShell ==
    (DKnown /\ DCmd = "quit") =>
        /\ quitting
        /\ pc = "done"
        /\ cmd_stack = <<>>
        /\ Len(returned) = dispatched.depth
        /\ AllTrue(returned)

C1_Witness ==
    /\ DKnown /\ DCmd = "quit"
    /\ dispatched.kind = "device"
    /\ dispatched.depth = 3
    /\ returned = <<True, True, True>>
    /\ pc = "done"

\* C2 (as claimed): a login that ends by end-of-input ends the call: it has
\* returned None, and no request and no login followed.
C2_EofAtLoginAbortsCall ==
    \A i \in 1..Len(call.login_results) :
        call.login_results[i].how = "eof" =>
            /\ call.state = "returned"
            /\ call.result.none
            /\ Len(call.requests) = i
            /\ call.logins = i

\* C3 (as claimed): one call enters the login flow at most once and issues
\* its request at most twice.
C3_RetryBoundedToOne ==
    /\ call.logins <= 1
    /\ Len(call.requests) <= 2

\* C4: when the first answer is 401, the login succeeds and the second answer
\* is 200, the same request went out again with the new credential as its
\* bearer, the call returned that 200 answer, and login was entered once.
C4_RetryAfterLoginSucceeds ==
    ( /\ Len(call.answers) >= 2
      /\ call.answers[1].status = "401"
      /\ call.login_results[1].how = "ok"
      /\ call.answers[2].status = "200" ) =>
        /\ Len(call.requests) = 2
        /\ call.requests[2].method = call.requests[1].method
        /\ call.requests[2].path = call.requests[1].path
        /\ call.requests[2].auth = Bearer(call.login_results[1].jwt)
        /\ call.state = "returned"
        /\ ~call.result.none
        /\ call.result = call.answers[2].body
        /\ call.logins = 1

C4_Witness ==
    /\ Len(call.answers) = 2
    /\ call.answers[1].status = "401"
    /\ call.login_results[1].how = "ok"
    /\ call.answers[2].status = "200"
    /\ call.state = "returned"
    /\ call.requests[1].auth # call.requests[2].auth
    /\ config["gateways"]["g1"]["jwt"] = call.login_results[1].jwt

\* C5 (as claimed): whatever ends the auto_cmdloop calls of a run, an
\* exception of a handler included, the stack is then what it was before the
\* outermost of them: empty.
C5_StackRestoredOnEveryExit ==
    pc \in {"done", "crashed"} => cmd_stack = <<>>

\* C6: with no source file, a command with a wrong number of arguments counts
\* one error, issues no request, pushes no shell, leaves the quitting flag
\* unset and gives no stop signal: a shell in its loop reads on, and a shell
\* running the line of the process returns None.
C6_WrongCountIsOneError ==
    (DWrongCount /\ dispatched.file = NoFile) =>
        /\ error_count = dispatched.errors + 1
        /\ fatal_count = dispatched.fatals
        /\ call = NoCall
        /\ ~quitting
        /\ IF dispatched.mode = "cmdloop"
           THEN /\ pc = "read"
                /\ Len(cmd_stack) = dispatched.depth
                /\ cmd_stack[Len(cmd_stack)].kind = dispatched.kind
                /\ returned = <<>>
           ELSE /\ pc = "done"
                /\ returned = <<None>>

C6_Witness ==
    /\ DWrongCount /\ dispatched.file = NoFile
    /\ DCmd = "read"
    /\ dispatched.depth = 3
    /\ error_count = dispatched.errors + 1
    /\ pc = "read"

\* Every answer of the gateway during the dispatch was 200 or 404.
DAnswersFoundOrNot ==
    \A i \in 1..Len(call.answers) : call.answers[i].status \in {"200", "404"}

DReportsError ==
    \/ /\ DCmd \in {"device", "thing"}
       /\ call.state = "returned"
       /\ call.result.none
    \/ /\ DCmd = "read"
       /\ ~dispatched.res.none
       /\ \/ ~dispatched.res.has_endpoints
          \/ dispatched.line[2] \notin dispatched.res.endpoints

C8_DirtyIffSetSinceSave ==
    /\ dirty = unsaved
    /\ session_op.op = "save" =>
          /\ ~dirty
          /\ IF session_op.before.dirty
             THEN /\ io = <<"write_tmp", "rename">>
                  /\ store = [exists |-> TRUE, doc |-> config]
             ELSE /\ io = <<>>
                  /\ store = session_op.before.store
    /\ session_op.op \in {"get", "set", "set_root"} =>
          /\ io = <<>>
          /\ store = session_op.before.store

C8_Witness ==
    /\ session_op.op = "save"
    /\ session_op.before.dirty
    /\ ~dirty
    /\ io = <<"write_tmp", "rename">>
    /\ "g2" \in DOMAIN store.doc["gateways"]
    /\ "jwt" \in DOMAIN store.doc["gateways"]["g2"]

\* C9 (as claimed): get raises nothing, and before any set_root it returns
\* the empty string.
C9_GetNeverFails ==
    session_op.op = "get" =>
        /\ session_op.exc = "none"
        /\ session_op.before.root = NoRoot => session_op.ret = ""

\* C10: with a source file, an unknown command or a wrong number of arguments
\* in a shell at any depth is reported once, with the file name and the line
\* number of the outermost shell, sets the quitting flag, and every
\* auto_cmdloop on the stack returns True in that same step.
C10_FileModeErrorIsFatal ==
    ((DUnknown \/ DWrongCount) /\ dispatched.file # NoFile) =>
        /\ Len(reports) = 1
        /\ reports[1].sev = "error"
        /\ reports[1].msg.fmt = "File: %s Line: %d Error: %s"
        /\ reports[1].msg.args[1] = dispatched.file
        /\ reports[1].msg.args[2] =
              dispatched.base_line_num + (IF dispatched.depth = 1 THEN 1 ELSE 0)
        /\ error_count = dispatched.errors + 1
        /\ quitting
        /\ pc = "done"
        /\ cmd_stack = <<>>
        /\ Len(returned) = dispatched.depth
        /\ AllTrue(returned)

C10_Witness ==
    /\ DUnknown /\ dispatched.file # NoFile
    /\ dispatched.depth = 3
    /\ Len(reports) = 1
    /\ quitting
    /\ pc = "done"

\* C11 (as claimed): no exception of a handler leaves the dispatch uncaught:
\* the program never ends by an exception that reached main.
C11_NoUncaughtException ==
    pc # "crashed"

\* C12 (as claimed): when the shell that got the line of the process has
\* entered a nested shell by it, and that shell is left by end-of-input while
\* the process is not quitting, the first shell reads its next line itself.
C12_OneShotLoopsAfterNested ==
    ( /\ dispatched.active
      /\ ~dispatched.interrupted
      /\ dispatched.base_mode = "onecmd"
      /\ dispatched.depth = 2
      /\ dispatched.line = EOF_LINE
      /\ ~quitting ) =>
        /\ pc = "read"
        /\ Len(cmd_stack) = 1
        /\ cmd_stack[1].cmdloop_executed

\* C13: a keyboard interrupt raised while the program reads a line, waits for
\* the gateway or waits at a login prompt sets the quitting flag, makes every
\* auto_cmdloop on the stack return True in that same step, leaves the stack
\* empty, and leaves the error and fatal counters as they were.
C13_InterruptUnwindsEveryShell ==
    dispatched.interrupted =>
        /\ quitting
        /\ pc = "done"
        /\ cmd_stack = <<>>
        /\ Len(returned) = dispatched.depth
        /\ AllTrue(returned)
        /\ reports = <<>>
        /\ error_count = dispatched.errors
        /\ fatal_count = dispatched.fatals

C13_Witness ==
    /\ dispatched.interrupted
    /\ dispatched.at = "password"
    /\ dispatched.depth = 3
    /\ returned = <<True, True, True>>
    /\ quitting
    /\ cmd_stack = <<>>

\* C14: a call whose first answer is not 401 has ended with that answer, after
\* one request and without a login: with the answer's body and no error on
\* 200, with no result and no error on 404, with no result and one error on
\* any other status and on a connection failure.
C14_FirstAnswerEndsCall ==
    (Len(call.answers) >= 1 /\ call.answers[1].status # "401") =>
        /\ call.state = "returned"
        /\ Len(call.requests) = 1
        /\ Len(call.answers) = 1
        /\ call.logins = 0
        /\ call.prompts = 0
        /\ CASE call.answers[1].status = "200" ->
                  /\ ~call.result.none
                  /\ call.result = call.answers[1].body
                  /\ reports = <<>>
             [] call.answers[1].status = "404" ->
                  /\ call.result.none
                  /\ reports = <<>>
             [] OTHER ->
                  /\ call.result.none
                  /\ Len(reports) = 1
                  /\ reports[1].sev = "error"

C14_Witness ==
    /\ Len(call.answers) = 1
    /\ call.answers[1].status = "conn"
    /\ call.method = "PUT"
    /\ call.state = "returned"
    /\ Len(reports) = 1
    /\ Len(call.requests) = 1

\* C15 (as claimed): once the gateway has rejected the credentials of a login,
\* that login is over without a credential: the identifier was asked for once
\* per login, and the program is not at a login prompt again.
C15_RejectedLoginReturns ==
    call.fails > 0 =>
        /\ call.prompts = call.logins
        /\ Len(call.login_results) = call.logins
        /\ pc \notin {"email", "password", "post"}

\* read with three or more arguments on a device record that has no
\* activeEndpoints or not the endpoint named.
DReadWithoutEndpoint ==
    /\ DKnown
    /\ DCmd = "read"
    /\ DArgs >= 3
    /\ ~dispatched.res.none
    /\ \/ ~dispatched.res.has_endpoints
       \/ dispatched.line[2] \notin dispatched.res.endpoints

\* C16 (as claimed): such a read counts one error, issues no request, and the
\* device shell reads on.
C16_ReadWithoutEndpointKeepsShell ==
    DReadWithoutEndpoint =>
        /\ error_count = dispatched.errors + 1
        /\ Len(reports) = 1
        /\ call = NoCall
        /\ ~quitting
        /\ pc = "read"
        /\ Len(cmd_stack) = dispatched.depth
        /\ cmd_stack[Len(cmd_stack)].kind = "device"

\* C16 (amended): such a read counts one error and issues no request; the
\* device shell reads on, except that with a source file an endpoint missing
\* from the activeEndpoints of the record is fatal: the quitting flag is set
\* and every shell returns True.
C16_ReadWithoutEndpoint ==
    DReadWithoutEndpoint =>
        /\ error_count = dispatched.errors + 1
        /\ Len(reports) = 1
        /\ reports[1].sev = "error"
        /\ call = NoCall
        /\ IF dispatched.file # NoFile /\ dispatched.res.has_endpoints
           THEN /\ quitting
                /\ pc = "done"
                /\ cmd_stack = <<>>
                /\ AllTrue(returned)
           ELSE /\ ~quitting
                /\ pc = "read"
                /\ Len(cmd_stack) = dispatched.depth
                /\ cmd_stack[Len(cmd_stack)].kind = "device"

C16_Witness ==
    /\ DReadWithoutEndpoint
    /\ dispatched.res.has_endpoints
    /\ dispatched.file # NoFile
    /\ Len(reports) = 1
    /\ reports[1].msg.fmt = "File: %s Line: %d Error: %s"
    /\ call = NoCall
    /\ quitting
    /\ pc = "done"

\* C17 (as claimed): a line read at a prompt starts a turn of its own: both
\* counters of the sink are zero as its dispatch begins.
C17_TurnsHaveIsolatedCounts ==
    ( /\ dispatched.active
      /\ ~dispatched.interrupted
      /\ dispatched.mode = "cmdloop" ) =>
        /\ dispatched.errors = 0
        /\ dispatched.fatals = 0

\* C18 (as claimed): with capture enabled, a call of debug, info, good, error
\* or fatal appends one pair of its severity and the formatted line to the
\* capture buffer.
C18_EverySeverityIsCaptured ==
    (sink_op.op \in Severities /\ sink_op.before.captured_output.on) =>
        /\ sink.captured_output.on
        /\ sink.captured_output.buf =
              Append(sink_op.before.captured_output.buf,
                     [sev |-> sink_op.op,
                      line |-> Format(sink_op.msg.fmt, sink_op.msg.args)])

LoggedIn ==
    \E g \in DOMAIN config["gateways"] :
        /\ "jwt" \in DOMAIN config["gateways"][g]
        /\ config["gateways"][g]["jwt"] \in IssuedJWTs

\* When main ends after the outermost auto_cmdloop has returned, a credential
\* of this run is in the file: save has written it once and cleared the flag.
CredentialSavedOnReturn ==
    (pc = "done" /\ LoggedIn) =>
        /\ ~dirty
        /\ io = <<"write_tmp", "rename">>
        /\ store.exists
        /\ store.doc = config

\* C20 (as claimed): a login that succeeded has put its credential under 'jwt'
\* in the scope of the selected gateway, and once the process has ended the
\* file holds the session with that credential and the dirty flag is clear.
C20_CredentialIsPersisted ==
    /\ \A i \in 1..Len(call.login_results) :
          call.login_results[i].how = "ok" =>
              /\ root # NoRoot
              /\ "jwt" \in DOMAIN config[root[1]][root[2]]
              /\ config[root[1]][root[2]]["jwt"] = call.login_results[i].jwt
    /\ (pc \in {"done", "crashed"} /\ LoggedIn) =>
          /\ ~dirty
          /\ store.exists
          /\ store.doc = config

\* The end-of-input line dispatched in a shell, and what the claim says of it.
DEof == dispatched.active /\ ~dispatched.interrupted /\ dispatched.line = EOF_LINE
EofStopsOnlyItsShell ==
    /\ error_count = dispatched.errors
    /\ fatal_count = dispatched.fatals
    /\ reports = <<>>
    /\ call = NoCall
    /\ ~quitting
    /\ returned[1] = None
    /\ IF dispatched.depth = 1
       THEN /\ pc = "done"
            /\ cmd_stack = <<>>
            /\ returned = <<None>>
       ELSE /\ pc = "read"
            /\ Len(cmd_stack) = dispatched.depth - 1
            /\ returned = <<None>>

\* End-of-input in a shell whose parent is in its read loop, or that has no
\* parent, stops that shell only.
EofWithParentInLoop ==
    (DEof /\ ~(dispatched.depth = 2 /\ dispatched.base_mode = "onecmd")) =>
        EofStopsOnlyItsShell

\* C21 (as claimed): end-of-input dispatched in a shell counts no error,
\* leaves the quitting flag unset, pops that one shell with a return value of
\* None, and the parent reads its next line; in the outermost shell it ends
\* the run.
C21_EofStopsOnlyItsShell ==
    DEof => EofStopsOnlyItsShell

\* ------------------------------------------------------------------ C22
\* The step is the dispatch of a line that is empty once its comment and its
\* blanks are gone, read at the prompt of the top shell.
EmptyLineStep ==
    /\ pc = "read"
    /\ dispatched'.active /\ ~dispatched'.interrupted
    /\ dispatched'.text # EOF_LINE
    /\ dispatched'.line = <<>>

\* What an empty line leaves alone: no handler ran and no request went out,
\* nothing was reported or counted, no shell was pushed or popped, the
\* program waits again at the same prompt, and the session is as it was.
EmptyLineFrame ==
    /\ pc' = "read"
    /\ io' = <<>> /\ call' = NoCall
    /\ reports' = <<>> /\ returned' = <<>>
    /\ error_count' = dispatched'.errors
    /\ fatal_count' = dispatched'.fatals
    /\ Len(cmd_stack') = Len(cmd_stack)
    /\ \A i \in 1..(Len(cmd_stack) - 1) : cmd_stack'[i] = cmd_stack[i]
    /\ UNCHANGED <<quitting, config, root, dirty, store, headers,
                   use_rawinput, gateway_left>>

\* C22, as stated: an empty line, a line of blanks, or a line that is only a
\* comment runs no handler, sends no request, records no error, and leaves
\* the stack and the quitting flag unchanged; of the shell that read it, only
\* the line counter changes, by one.
C22_EmptyLineOnlyCounts ==
    [][ EmptyLineStep =>
          /\ EmptyLineFrame
          /\ Top([cmd_stack |-> cmd_stack'])
               = [Top([cmd_stack |-> cmd_stack]) EXCEPT !.line_num = @ + 1] ]_vars

\* C22, amended: as above, and the shell's record of the command of its last
\* line is cleared as well.
C22_EmptyLineCountsAndClears ==
    [][ EmptyLineStep =>
          /\ EmptyLineFrame
          /\ Top([cmd_stack |-> cmd_stack'])
               = [Top([cmd_stack |-> cmd_stack]) EXCEPT !.line_num = @ + 1,
                                                        !.command = None] ]_vars

\* A comment-only line has been dispatched in a shell whose line before it
\* ran a command.
C22_Witness ==
    /\ dispatched.active /\ ~dispatched.interrupted
    /\ dispatched.text = <<HASH, "note">> /\ dispatched.line = <<>>
    /\ pc = "read"
    /\ cmd_stack[Len(cmd_stack)].line_num = 2
    /\ cmd_stack[Len(cmd_stack)].command = None

\* ------------------------------------------------------------------ C23
\* A HASH of the line that no backslash stands before.
Unescaped(text, i) == text[i] = HASH /\ (i = 1 \/ text[i - 1] # BS)

\* The line cut at its first unescaped HASH and trimmed; a line without one
\* is left as it is.
CutAtFirstUnescaped(text) ==
    IF \E i \in 1..Len(text) : Unescaped(text, i)
    THEN LET comment_idx == CHOOSE i \in 1..Len(text) :
                               /\ Unescaped(text, i)
                               /\ \A j \in 1..(i - 1) : ~Unescaped(text, j)
         IN Strip(SubSeq(text, 1, comment_idx - 1))
    ELSE text

\* A line other than end-of-input has been handed to onecmd.
DLine == dispatched.active /\ dispatched.text # EOF_LINE

\* C23: the text that is dispatched is the line cut at its first unescaped
\* '#' and trimmed; a '#' behind a backslash starts no comment and stays in
\* the dispatched text.
C23_CutAtFirstUnescapedHash ==
    DLine => dispatched.stripped = CutAtFirstUnescaped(dispatched.text)

\* What holds of the code: a line in which no '#' stands behind a backslash
\* is cut at its first '#' and trimmed.
CutWhereNothingIsEscaped ==
    (DLine /\ \A i \in 1..Len(dispatched.text) :
                  dispatched.text[i] = HASH => Unescaped(dispatched.text, i))
        => dispatched.stripped = CutAtFirstUnescaped(dispatched.text)

\* ------------------------------------------------------------------ C24
\* The stack as the dispatch leaves it when no shell is pushed or popped: the
\* shell that got the line has counted it and noted its command.
StackAfterLine ==
    [dispatched.stack EXCEPT ![dispatched.depth].line_num = @ + 1,
                             ![dispatched.depth].command = dispatched.line[1]]

\* Without a command file, a line whose command has no handler in the shell
\* is one 'Unrecognized command' error and nothing else: no exception leaves
\* the dispatch, no request is sent, the stack and the quitting flag are as
\* they were, and no stop is signalled.
UnknownIsOneError ==
    (DUnknown /\ dispatched.file = NoFile) =>
        /\ reports = << [sev |-> "error",
                        msg |-> Msg("Error: %s",
                                    <<Msg("Unrecognized command: '%s'",
                                          dispatched.line)>>)] >>
        /\ error_count = dispatched.errors + 1
        /\ fatal_count = dispatched.fatals
        /\ call = NoCall
        /\ ~quitting
        /\ IF dispatched.mode = "cmdloop"
           THEN /\ pc = "read"
                /\ cmd_stack = StackAfterLine
                /\ returned = <<>>
           ELSE /\ pc = "done"
                /\ returned = <<None>>

\* In a device shell with a record, 'adapter-devices' and 'adapter_devices'
\* both run do_adapter_devices: the 'devices' debug command is put to the
\* gateway for that device.
HyphenIsUnderscore ==
    ( /\ dispatched.active /\ ~dispatched.interrupted
      /\ dispatched.kind = "device" /\ ~dispatched.res.none
      /\ dispatched.line \in { <<"adapter-devices">>, <<"adapter_devices">> } )
        => /\ call.method = "PUT"
           /\ call.path = <<"/debug/device/", dispatched.res.id, "/cmd/", "devices">>
           /\ call.requests # <<>>

\* C24: in interactive mode a command token that, with its hyphens mapped to
\* underscores, matches no handler of the shell records exactly one
\* 'Unrecognized command' error, raises nothing uncaught, leaves the stack
\* and the quitting flag unchanged and signals no stop; a token typed with
\* hyphens reaches the handler of the same token typed with underscores.
C24_UnknownCommandIsOneError ==
    UnknownIsOneError /\ HyphenIsUnderscore

\* An unknown command was typed in a device shell and reported there, and
\* the shell reads on.
C24_Witness ==
    /\ DUnknown /\ dispatched.file = NoFile
    /\ dispatched.depth = 3
    /\ Len(reports) = 1
    /\ error_count = dispatched.errors + 1
    /\ pc = "read"
    /\ cmd_stack = StackAfterLine

\* ------------------------------------------------------------------ C25
\* What the last call handed to the logger.
Emitted == SubSeq(sink.logged, Len(sink_op.before.logged) + 1, Len(sink.logged))

\* The lines, each followed by a newline, one after the other.
RECURSIVE Terminated(_)
Terminated(lines) ==
    IF lines = <<>> THEN <<>>
    ELSE Head(lines).line \o <<NL>> \o Terminated(Tail(lines))

\* A call of write kept the stream whole: the pending text has no newline,
\* every line emitted is an info line, and the lines emitted, each with its
\* newline, followed by the pending text are the text that was pending
\* before followed by the text written.
WriteKeepsTheStream ==
    /\ \A i \in 1..Len(sink.buffered_output) : sink.buffered_output[i] # NL
    /\ \A i \in 1..Len(Emitted) : Emitted[i].sev = "info"
    /\ Terminated(Emitted) \o sink.buffered_output
          = sink_op.before.buffered_output \o sink_op.msg.fmt

\* C25: after every write the pending buffer holds no newline, and the info
\* lines emitted, each followed by a newline, with the pending buffer after
\* them are the texts written: every call of write extends the stream by its
\* text, and a line is emitted once its newline was written.
C25_WriteKeepsTheStream ==
    sink_op.op = "write" => WriteKeepsTheStream

\* What holds of the code: a write that returns kept the stream whole.
WriteThatReturnsKeepsTheStream ==
    (sink_op.op = "write" /\ sink.exc = "none") => WriteKeepsTheStream

\* ------------------------------------------------------------------ C26
\* The stack is a prefix of root, gateway, device or thing.
StackIsHierarchyPrefix ==
    /\ Len(cmd_stack) <= 3
    /\ \A i \in 1..Len(cmd_stack) :
          cmd_stack[i].kind \in (CASE i = 1 -> {"root"}
                                   [] i = 2 -> {"gateway"}
                                   [] OTHER -> {"device", "thing"})

\* 'device <id>' or 'thing <id>' has been dispatched in a gateway shell.
DOpen ==
    /\ DKnown /\ dispatched.kind = "gateway"
    /\ DCmd \in {"device", "thing"} /\ DArgs = 1

\* The shell of the record is pushed when the gateway's answer is a record
\* and at no other time: while the call has not returned, and when it
\* returned without a record, the stack is the one the line was read on.
PushOnlyWithRecord ==
    DOpen =>
        IF call.state = "returned" /\ ~call.result.none
        THEN /\ pc = "read"
             /\ Len(cmd_stack) = dispatched.depth + 1
             /\ SubSeq(cmd_stack, 1, dispatched.depth) = StackAfterLine
             /\ cmd_stack[Len(cmd_stack)].kind = DCmd
             /\ cmd_stack[Len(cmd_stack)].res = call.result
        ELSE /\ cmd_stack = StackAfterLine
             /\ call.state = "returned" => pc = "read"

\* C26: in every state the stack is a prefix of root, gateway, device or
\* thing: at most three shells, the root shell at the bottom, a gateway shell
\* only on the root shell, a device or thing shell only on a gateway shell;
\* 'device <id>' and 'thing <id>' push a shell only when the gateway returned
\* a record for the id, and leave the stack unchanged otherwise.
C26_StackIsHierarchyPrefix ==
    StackIsHierarchyPrefix /\ PushOnlyWithRecord

\* A thing shell stands on a gateway shell on the root shell, pushed for the
\* record the gateway returned.
C26_Witness ==
    /\ DOpen /\ DCmd = "thing"
    /\ call.state = "returned" /\ ~call.result.none
    /\ Len(cmd_stack) = 3
    /\ cmd_stack[3].kind = "thing"
    /\ pc = "read"

\* ------------------------------------------------------------------ C27
\* The step is the dispatch of 'gateway <name>' in the root shell, as the
\* line of the process or as a line read at the prompt: set_root, the
\* construction of the client, and the gateway shell's first prompt.  No
\* request is sent in it, so no login happens.
EntersGateway ==
    /\ pc \in {"start", "read"}
    /\ dispatched'.active /\ ~dispatched'.interrupted
    /\ dispatched'.kind = "root"
    /\ Len(dispatched'.line) = 2 /\ dispatched'.line[1] = "gateway"
    /\ pc' = "read" /\ Len(cmd_stack') = 2

\* The scope of the gateway holds a credential before the step.
HasCredential(name) ==
    /\ name \in DOMAIN config["gateways"]
    /\ "jwt" \in DOMAIN config["gateways"][name]

\* C27: entering a gateway leaves the dirty flag of the session as it was:
\* neither set_root, also when it creates the scope, nor the construction of
\* the client from a stored credential marks the session dirty, so that a
\* run that enters a gateway and quits writes nothing.
C27_EnteringLeavesDirtyUnchanged ==
    [][ EntersGateway => /\ dirty' = dirty
                         /\ call' = NoCall ]_vars

\* What holds of the code: entering a gateway whose scope holds no
\* credential, or has yet to be created, leaves the dirty flag and the file
\* as they were.
EnteringWithoutCredential ==
    [][ (EntersGateway /\ ~HasCredential(dispatched'.line[2]))
            => /\ dirty' = dirty
               /\ store' = store
               /\ call' = NoCall
               /\ root' = <<"gateways", dispatched'.line[2]>>
               /\ headers' = NoAuth ]_vars

\* A run that entered a gateway with a stored credential and quit has
\* written the file.
EnterAndQuitWrites ==
    /\ pc = "done"
    /\ DKnown /\ DCmd = "quit" /\ dispatched.depth = 2
    /\ dispatched.base_line_num = 1 /\ dispatched.stack[2].line_num = 0
    /\ io = <<"write_tmp", "rename">>

====
